---- MODULE Spec2Model ----
(***************************************************************************)
(* The memorize-then-recall game engine of "memory bot": GameSession       *)
(* (game_logic.py) and the handlers, deferred tasks and timer job that     *)
(* drive it (main.py).                                                     *)
(*                                                                         *)
(* Execution model.  Everything runs on one asyncio event loop, so the     *)
(* code between two awaits that really suspend (Telegram API calls,        *)
(* asyncio.sleep) is one atomic step.  The application is built with the   *)
(* default concurrent_updates=False: the update handlers (start,           *)
(* button_handler, check_input) run one after the other, while the timer   *)
(* job (edit_message_job) and the tasks made with create_task interleave   *)
(* with the running handler at every suspension point.  Time is            *)
(* abstracted: a sleeping task or an armed job may resume at any moment.   *)
(* A Telegram API call may raise; the exception ends the coroutine that    *)
(* awaited it unless the code catches it.  A GameSession object that       *)
(* nothing refers to any more is garbage: its slot is reset and reused.    *)
(***************************************************************************)
EXTENDS Integers, Sequences, FiniteSets, TLC

(* ------------------------------ bounds -------------------------------- *)
MaxSessions == 2
MaxJobs == 2
MaxTasks == 1
MaxLevel == 2
MaxDebt == 1
MaxOver == 1
MaxRare == 1
MaxTimeLevel == 24

(* ------------------------- program constants -------------------------- *)
MaxRounds == 8
FullHearts == 3

(* Telegram user ids are positive integers.  Players are the users who    *)
(* send updates; the other user only owns a session and a timer job.      *)
Users == {1, 2}
Players == {1}
SessionIds == 1..MaxSessions
JobIds == 1..MaxJobs
TaskIds == 1..MaxTasks

Digits == {"0", "1", "2", "3", "4", "5", "6", "7", "8", "9"}
Whitespace == {" "}

(* Texts are sequences of one-character strings. *)
TargetA == <<"1", "2", "3", "4", "5", "6">>
Targets == {TargetA}
Texts == Targets \cup {<<"0", "0", "0", "0", "0", "0">>, <<"1", "2", "a">>,
                       <<" ", "1", "2", "3", "4", "5", "6">>}

Max(a, b) == IF a >= b THEN a ELSE b

(* str.isdigit(): non-empty and every character a decimal digit. *)
isdigit(t) == Len(t) > 0 /\ \A i \in 1..Len(t) : t[i] \in Digits

RECURSIVE lstrip(_)
lstrip(t) == IF Len(t) > 0 /\ Head(t) \in Whitespace THEN lstrip(Tail(t)) ELSE t

RECURSIVE rstrip(_)
rstrip(t) ==
    IF Len(t) > 0 /\ t[Len(t)] \in Whitespace THEN rstrip(SubSeq(t, 1, Len(t) - 1)) ELSE t

(* str.strip() *)
strip(t) == rstrip(lstrip(t))

(* ----------------------------- GameSession ---------------------------- *)
(* Durations are in hundredths of a second.                               *)
times ==
    [l \in 1..12 |->
        CASE l = 1 -> 1500 [] l = 2 -> 1000 [] l = 3 -> 800 [] l = 4 -> 600
          [] l = 5 -> 500 [] l = 6 -> 400 [] l = 7 -> 300 [] l = 8 -> 250
          [] l = 9 -> 200 [] l = 10 -> 150 [] l = 11 -> 125 [] l = 12 -> 100]

(* get_time_for_level without the floor of line 27. *)
get_time_for_level_no_floor(level) ==
    IF level \in DOMAIN times THEN times[level] ELSE 100 - (level - 12) * 10

get_time_for_level(level) ==
    IF level \in DOMAIN times THEN times[level] ELSE Max(10, 100 - (level - 12) * 10)

(* GameSession.__init__.  current_time is written by start_new_round and   *)
(* never read: the round's duration is get_time_for_level(level).          *)
(* consumed is history, not a field of the class: it tells that the        *)
(* sequence now in target_number was drawn by start_new_round and has      *)
(* since been used up by check_answer or by the early-input penalty.       *)
GameSession ==
    [level |-> 1, round |-> 1, hearts |-> FullHearts, target_number |-> <<>>,
     level_correct_count |-> 0, state |-> "IDLE", consumed |-> FALSE]

start_new_round(s, t) ==
    [s EXCEPT !.state = "SHOWING_NUMBER", !.target_number = t, !.consumed = FALSE]

(* check_answer charging a heart for every answer, right or wrong. *)
check_answer_always_costs(s, user_input) ==
    IF s.target_number # <<>> /\ strip(user_input) = s.target_number
    THEN [s EXCEPT !.state = "IDLE",
                   !.level_correct_count = s.level_correct_count + 1,
                   !.hearts = s.hearts - 1,
                   !.target_number = <<>>,
                   !.consumed = FALSE]
    ELSE [s EXCEPT !.state = "IDLE", !.hearts = s.hearts - 1,
                   !.consumed = (s.target_number # <<>>)]

check_answer_correct(s, user_input) ==
    s.target_number # <<>> /\ strip(user_input) = s.target_number

check_answer(s, user_input) ==
    IF check_answer_correct(s, user_input)
    THEN [s EXCEPT !.state = "IDLE",
                   !.level_correct_count = s.level_correct_count + 1,
                   !.target_number = <<>>,
                   !.consumed = FALSE]
    ELSE [s EXCEPT !.state = "IDLE", !.hearts = s.hearts - 1,
                   !.consumed = (s.target_number # <<>>)]

next_round(s) == [s EXCEPT !.state = "IDLE", !.round = s.round + 1]

(* next_round's test written with >= : the level completes a round early. *)
next_round_status_early(s) ==
    IF s.round + 1 >= MaxRounds THEN "LEVEL_COMPLETE" ELSE "NEXT_ROUND"

next_round_status(s) ==
    IF s.round + 1 > MaxRounds THEN "LEVEL_COMPLETE" ELSE "NEXT_ROUND"

advance_level(s) ==
    [s EXCEPT !.level = s.level + 1, !.round = 1, !.level_correct_count = 0,
              !.hearts = FullHearts]

(* reduce_level without the test of line 66. *)
reduce_level_unguarded(s) ==
    [s EXCEPT !.level = s.level - 1, !.round = 1, !.level_correct_count = 0,
              !.hearts = FullHearts]

reduce_level(s) ==
    IF s.level > 1
    THEN [s EXCEPT !.level = s.level - 1, !.round = 1, !.level_correct_count = 0,
                   !.hearts = FullHearts]
    ELSE s

(* The value reduce_level returns, lines 66-73. *)
reduce_level_returns(s) == s.level > 1

increase_level_manual(s) ==
    [s EXCEPT !.level = s.level + 1, !.round = 1, !.level_correct_count = 0,
              !.hearts = FullHearts]

(* is_game_over written with < : a session with no heart left plays on. *)
is_game_over_strict(s) == s.hearts < 0

is_game_over(s) == s.hearts <= 0

(* The assignments of handle_game_over after its send_message. *)
game_over_reset(s) ==
    [s EXCEPT !.level = 1, !.round = 1, !.hearts = FullHearts,
              !.level_correct_count = 0]

(* ------------------------------- state -------------------------------- *)
VARIABLES
    heap,       \* the GameSession objects, by identity
    sessions,   \* bot_context.sessions: user -> session identity, 0 = absent
    user_jobs,  \* bot_context.user_jobs: user -> job identity, 0 = absent
    jobs,       \* the job queue's jobs made by run_once, by identity
    tasks,      \* the transition_to_next_round(_delayed) tasks made by create_task
    menu,       \* whether a transition_to_menu task is pending
    handler,    \* the update handler in progress, and where it is suspended
    rare       \* how many rare events happened: an exception raised, a live session replaced

vars == <<heap, sessions, user_jobs, jobs, tasks, menu, handler, rare>>

NoHandler == [kind |-> "none", user |-> 0, sid |-> 0, pc |-> "none",
              job_cancelled |-> FALSE]
NoTask == [kind |-> "none", sid |-> 0, pc |-> "none"]
NoJob == [st |-> "free", user |-> 0]

Init ==
    /\ heap = [i \in SessionIds |-> GameSession]
    /\ sessions = [u \in Users |-> 0]
    /\ user_jobs = [u \in Users |-> 0]
    /\ jobs = [j \in JobIds |-> NoJob]
    /\ tasks = [t \in TaskIds |-> NoTask]
    /\ menu = FALSE
    /\ handler = NoHandler
    /\ rare = 0

(* ------------------------------ helpers ------------------------------- *)
Least(S) == CHOOSE x \in S : \A y \in S : x <= y

FreeJobs(js) == {j \in JobIds : js[j].st = "free"}
FreeTasks(ts) == {t \in TaskIds : ts[t].kind = "none"}

(* The session objects something still refers to. *)
Referenced(ss, ts, h) ==
    {i \in SessionIds : \/ \E u \in Users : ss[u] = i
                        \/ \E t \in TaskIds : ts[t].sid = i
                        \/ h.sid = i}

(* An unreferenced GameSession is garbage: its slot is reset.  A session    *)
(* that no user maps to any more is reachable only from the deferred       *)
(* tasks that hold it, and they read only its hearts and its state (lines  *)
(* 257-258): its other fields are reset as well.                           *)
Gc(hp, ss, ts, h) ==
    [i \in SessionIds |->
        IF i \notin Referenced(ss, ts, h) THEN GameSession
        ELSE IF \E u \in Users : ss[u] = i THEN hp[i]
        ELSE [GameSession EXCEPT !.hearts = hp[i].hearts, !.state = hp[i].state]]

(* A job that ended and that user_jobs no longer names is unreachable:    *)
(* its slot is reused.                                                    *)
Collect(js, uj) ==
    [j \in JobIds |->
        IF js[j].st = "dead" /\ \A u \in Users : uj[u] # j THEN NoJob ELSE js[j]]

(* next((uid for uid, s in sessions.items() if s == session), None);      *)
(* 0 stands for None.                                                     *)
user_of(sid) ==
    IF \E u \in Users : sessions[u] = sid
    THEN Least({u \in Users : sessions[u] = sid})
    ELSE 0

(* create_task(coro): the new coroutine starts at its first await, the    *)
(* asyncio.sleep.                                                         *)
create_task(ts, kind, sid) ==
    [ts EXCEPT ![Least(FreeTasks(ts))] = [kind |-> kind, sid |-> sid, pc |-> "sleep"]]

(* cancel_user_job(user_id): the outcomes of the call.  Removing a job    *)
(* whose callback was already submitted is decided by the job-queue       *)
(* library: it raises a lookup error or it returns having removed         *)
(* nothing; in neither case does it stop the callback.                    *)
cancel_user_job(u) ==
    IF user_jobs[u] = 0
    THEN {[ret |-> "False", uj |-> user_jobs, js |-> jobs]}
    ELSE LET j == user_jobs[u]
             uj1 == [user_jobs EXCEPT ![u] = 0]
         IN  IF jobs[j].st = "armed"
             THEN {[ret |-> "True", uj |-> uj1, js |-> [jobs EXCEPT ![j] = NoJob]]}
             ELSE {[ret |-> "raise", uj |-> user_jobs, js |-> jobs],
                   [ret |-> "True", uj |-> uj1, js |-> Collect(jobs, uj1)]}

(* job_queue.run_once(edit_message_job, ...) and the registration in      *)
(* user_jobs, lines 293-302 of start_round_execution.                     *)
run_once_user_jobs(sid) ==
    IF user_of(sid) # 0
    THEN [user_jobs EXCEPT ![user_of(sid)] = Least(FreeJobs(jobs))]
    ELSE user_jobs
run_once_jobs(sid) ==
    Collect([jobs EXCEPT ![Least(FreeJobs(jobs))] =
                [st |-> "armed", user |-> user_of(sid)]],
            run_once_user_jobs(sid))

(* --------------------------- update handlers --------------------------- *)
FreeSessions == SessionIds \ Referenced(sessions, tasks, handler)

(* start: /start replaces the user's session by a fresh GameSession.       *)
(* Replacing a session that exists counts as a rare event.                 *)
start(u) ==
    /\ handler.kind = "none"
    /\ FreeSessions # {}
    /\ sessions' = [sessions EXCEPT ![u] = Least(FreeSessions)]
    /\ heap' = Gc([heap EXCEPT ![Least(FreeSessions)] = GameSession],
                  sessions', tasks, handler)
    /\ UNCHANGED <<user_jobs, jobs, tasks, menu, handler>>
    /\ IF sessions[u] # 0 THEN rare < MaxRare /\ rare' = rare + 1 ELSE UNCHANGED rare

(* button_handler, lines 115-118: a session is made when the user has none. *)
HasOrCanMake(u) == sessions[u] # 0 \/ FreeSessions # {}
SidAfter(u) == IF sessions[u] # 0 THEN sessions[u] ELSE Least(FreeSessions)

(* button_handler, query.data = 'start_round': up to the clean_chat of      *)
(* start_round_execution.                                                  *)
button_start_round(u) ==
    /\ handler.kind = "none"
    /\ HasOrCanMake(u)
    /\ sessions' = [sessions EXCEPT ![u] = SidAfter(u)]
    /\ handler' = [NoHandler EXCEPT !.kind = "button", !.user = u,
                                    !.sid = SidAfter(u), !.pc = "clean"]
    /\ UNCHANGED <<heap, user_jobs, jobs, tasks, menu>>
    /\ UNCHANGED rare

(* button_handler, query.data = 'lvl_up' *)
button_lvl_up(u) ==
    /\ handler.kind = "none"
    /\ HasOrCanMake(u)
    /\ heap[SidAfter(u)].level < MaxLevel
    /\ sessions' = [sessions EXCEPT ![u] = SidAfter(u)]
    /\ heap' = [heap EXCEPT ![SidAfter(u)] = increase_level_manual(@)]
    /\ UNCHANGED <<user_jobs, jobs, tasks, menu, handler>>
    /\ UNCHANGED rare

(* button_handler, query.data = 'lvl_down' *)
button_lvl_down(u) ==
    /\ handler.kind = "none"
    /\ HasOrCanMake(u)
    /\ sessions' = [sessions EXCEPT ![u] = SidAfter(u)]
    /\ heap' = [heap EXCEPT ![SidAfter(u)] = reduce_level(@)]
    /\ UNCHANGED <<user_jobs, jobs, tasks, menu, handler>>
    /\ UNCHANGED rare

(* ------------------------------ check_input ---------------------------- *)
(* check_input without the IDLE test of lines 150-152: the text is judged  *)
(* as a wrong answer.                                                      *)
check_input_idle_judged(u) ==
    /\ handler.kind = "none"
    /\ sessions[u] # 0
    /\ heap[sessions[u]].state = "IDLE"
    /\ heap[sessions[u]].hearts > -MaxDebt
    /\ heap' = [heap EXCEPT ![sessions[u]].hearts = @ - 1]
    /\ UNCHANGED <<sessions, user_jobs, jobs, tasks, menu, handler, rare>>

(* Lines 142-152: no session, or the session is IDLE: the text is dropped. *)
check_input_ignored(u) ==
    /\ handler.kind = "none"
    /\ IF sessions[u] = 0 THEN TRUE ELSE heap[sessions[u]].state = "IDLE"
    /\ UNCHANGED vars

(* The handler is left by an exception raised in cancel_user_job.          *)
Raised(u) ==
    [NoHandler EXCEPT !.kind = "check_input", !.user = u, !.sid = sessions[u],
                      !.pc = "raised"]

(* Lines 154-160 with the heart deducted before cancel_user_job is called: *)
(* a raising cancel leaves the deduction behind.                           *)
check_input_early_heart_first(u) ==
    /\ handler.kind = "none"
    /\ sessions[u] # 0
    /\ heap[sessions[u]].state = "SHOWING_NUMBER"
    /\ heap[sessions[u]].hearts > -MaxDebt
    /\ heap' = [heap EXCEPT ![sessions[u]].hearts = @ - 1,
                             ![sessions[u]].consumed =
                                 (heap[sessions[u]].target_number # <<>>)]
    /\ \E o \in cancel_user_job(u) :
        IF o.ret = "raise"
        THEN /\ rare < MaxRare
             /\ rare' = rare + 1
             /\ handler' = Raised(u)
             /\ UNCHANGED <<user_jobs, jobs>>
        ELSE /\ UNCHANGED rare
             /\ user_jobs' = o.uj
             /\ jobs' = o.js
             /\ handler' = [NoHandler EXCEPT !.kind = "check_input", !.user = u,
                                             !.sid = sessions[u], !.pc = "early_reply",
                                             !.job_cancelled = (o.ret = "True")]
    /\ UNCHANGED <<sessions, tasks, menu>>

(* Lines 154-160: input while SHOWING_NUMBER, up to the reply_text await.  *)
check_input_early(u) ==
    /\ handler.kind = "none"
    /\ sessions[u] # 0
    /\ heap[sessions[u]].state = "SHOWING_NUMBER"
    /\ heap[sessions[u]].hearts > -MaxDebt
    /\ \E o \in cancel_user_job(u) :
        IF o.ret = "raise"
        THEN /\ rare < MaxRare
             /\ rare' = rare + 1
             /\ handler' = Raised(u)
             /\ UNCHANGED <<heap, user_jobs, jobs>>
        ELSE /\ UNCHANGED rare
             /\ user_jobs' = o.uj
             /\ jobs' = o.js
             /\ heap' = [heap EXCEPT ![sessions[u]].hearts = @ - 1,
                                      ![sessions[u]].consumed =
                                          (heap[sessions[u]].target_number # <<>>)]
             /\ handler' = [NoHandler EXCEPT !.kind = "check_input", !.user = u,
                                             !.sid = sessions[u], !.pc = "early_reply",
                                             !.job_cancelled = (o.ret = "True")]
    /\ UNCHANGED <<sessions, tasks, menu>>

(* Lines 177-181 with the non-digit text counted as a wrong answer. *)
check_input_not_digits_penalised(u, text) ==
    /\ handler.kind = "none"
    /\ sessions[u] # 0
    /\ heap[sessions[u]].state = "WAITING_INPUT"
    /\ ~isdigit(text)
    /\ heap[sessions[u]].hearts > -MaxDebt
    /\ heap' = [heap EXCEPT ![sessions[u]] = check_answer(@, text)]
    /\ handler' = [NoHandler EXCEPT !.kind = "check_input", !.user = u,
                                    !.sid = sessions[u], !.pc = "digits_reply"]
    /\ UNCHANGED <<sessions, user_jobs, jobs, tasks, menu, rare>>

(* Lines 177-181: a text that is not all digits, outside IDLE and SHOWING. *)
check_input_not_digits(u, text) ==
    /\ handler.kind = "none"
    /\ sessions[u] # 0
    /\ heap[sessions[u]].state = "WAITING_INPUT"
    /\ ~isdigit(text)
    /\ handler' = [NoHandler EXCEPT !.kind = "check_input", !.user = u,
                                    !.sid = sessions[u], !.pc = "digits_reply"]
    /\ UNCHANGED <<heap, sessions, user_jobs, jobs, tasks, menu>>
    /\ UNCHANGED rare

(* Where check_input first suspends after check_answer (lines 187-226). *)
answer_pc(s0, text) ==
    IF check_answer_correct(s0, text) THEN "correct_reply"
    ELSE IF is_game_over(check_answer(s0, text)) THEN "over_send"
    ELSE "wrong_reply"

(* Lines 183-226: an all-digit text outside IDLE and SHOWING, up to the    *)
(* first await after check_answer.                                         *)
check_input_answer(u, text) ==
    /\ handler.kind = "none"
    /\ sessions[u] # 0
    /\ heap[sessions[u]].state = "WAITING_INPUT"
    /\ isdigit(text)
    /\ heap[sessions[u]].hearts > -MaxDebt
    /\ heap[sessions[u]].level_correct_count < MaxRounds + MaxOver
    /\ heap[sessions[u]].round < MaxRounds + 1 + MaxOver
    /\ \E o \in (IF user_jobs[u] # 0 THEN cancel_user_job(u)
                 ELSE {[ret |-> "False", uj |-> user_jobs, js |-> jobs]}) :
        IF o.ret = "raise"
        THEN /\ rare < MaxRare
             /\ rare' = rare + 1
             /\ handler' = Raised(u)
             /\ UNCHANGED <<heap, user_jobs, jobs>>
        ELSE LET sid == sessions[u]
                 pc == answer_pc(heap[sid], text)
                 s1 == check_answer(heap[sid], text)
             IN  /\ UNCHANGED rare
                 /\ user_jobs' = o.uj
                 /\ jobs' = o.js
                 /\ heap' = [heap EXCEPT ![sid] =
                                IF pc = "wrong_reply" THEN next_round(s1) ELSE s1]
                 /\ handler' = [NoHandler EXCEPT !.kind = "check_input", !.user = u,
                                                 !.sid = sid, !.pc = pc]
    /\ UNCHANGED <<sessions, tasks, menu>>

(* Lines 163-175, after the "TOO EARLY" reply was sent. *)
early_after_reply ==
    /\ handler.pc = "early_reply"
    /\ IF is_game_over(heap[handler.sid])
       THEN /\ handler' = [handler EXCEPT !.pc = "early_over_send"]
            /\ UNCHANGED <<heap, tasks>>
       ELSE /\ FreeTasks(tasks) # {}
            /\ heap' = [heap EXCEPT ![handler.sid].state = "IDLE"]
            /\ tasks' = create_task(tasks, "delayed", handler.sid)
            /\ handler' = NoHandler
    /\ UNCHANGED <<sessions, user_jobs, jobs, menu>>
    /\ UNCHANGED rare

(* handle_game_over after its send_message (lines 265-269), called from    *)
(* line 164, then line 174.                                                *)
early_after_game_over ==
    /\ handler.pc = "early_over_send"
    /\ FreeTasks(tasks) # {}
    /\ heap' = [heap EXCEPT ![handler.sid] = game_over_reset(@)]
    /\ menu' = TRUE
    /\ tasks' = create_task(tasks, "delayed", handler.sid)
    /\ handler' = NoHandler
    /\ UNCHANGED <<sessions, user_jobs, jobs>>
    /\ UNCHANGED rare

(* handle_game_over after its send_message, called from line 220. *)
answer_after_game_over ==
    /\ handler.pc = "over_send"
    /\ handler' = NoHandler
    /\ menu' = TRUE
    /\ heap' = Gc([heap EXCEPT ![handler.sid] = game_over_reset(@)],
                  sessions, tasks, handler')
    /\ UNCHANGED <<sessions, user_jobs, jobs, tasks>>
    /\ UNCHANGED rare

(* Lines 229-249, the "Transition Logic", up to its await if it has one;   *)
(* s1 is the session as the code before it left it.                        *)
transition_logic(s1) ==
    IF s1.round > 1 /\ s1.round <= MaxRounds
    THEN /\ FreeTasks(tasks) # {}
         /\ heap' = [heap EXCEPT ![handler.sid] = s1]
         /\ tasks' = create_task(tasks, "next", handler.sid)
         /\ handler' = NoHandler
         /\ UNCHANGED menu
    ELSE IF s1.round > MaxRounds
    THEN /\ heap' = [heap EXCEPT ![handler.sid] = s1]
         /\ handler' = [handler EXCEPT !.pc = "stats_send"]
         /\ UNCHANGED <<tasks, menu>>
    ELSE /\ handler' = NoHandler
         /\ menu' = TRUE
         /\ heap' = Gc([heap EXCEPT ![handler.sid] = s1], sessions, tasks, handler')
         /\ UNCHANGED tasks

(* Lines 194-216 and 229-249, after the "Correct!" reply was sent. *)
correct_after_reply ==
    /\ handler.pc = "correct_reply"
    /\ heap[handler.sid].round < MaxRounds + 1 + MaxOver
    /\ IF next_round_status(heap[handler.sid]) = "LEVEL_COMPLETE"
       THEN /\ heap' = [heap EXCEPT ![handler.sid] = next_round(@)]
            /\ handler' = [handler EXCEPT !.pc = "stats_send"]
            /\ UNCHANGED <<tasks, menu>>
       ELSE transition_logic(next_round(heap[handler.sid]))
    /\ UNCHANGED <<sessions, user_jobs, jobs>>
    /\ UNCHANGED rare

(* Lines 229-249, after the "Wrong!" reply was sent. *)
wrong_after_reply ==
    /\ handler.pc = "wrong_reply"
    /\ transition_logic(heap[handler.sid])
    /\ UNCHANGED <<sessions, user_jobs, jobs>>
    /\ UNCHANGED rare

(* Lines 214-216 and 245-247, after the level statistics were sent. *)
after_stats ==
    /\ handler.pc = "stats_send"
    /\ heap[handler.sid].level < MaxLevel
    /\ handler' = NoHandler
    /\ menu' = TRUE
    /\ heap' = Gc([heap EXCEPT ![handler.sid] = advance_level(@)],
                  sessions, tasks, handler')
    /\ UNCHANGED <<sessions, user_jobs, jobs, tasks>>
    /\ UNCHANGED rare

(* Line 181: the handler returns after the "Digits only" reply. *)
after_digits_reply ==
    /\ handler.pc = "digits_reply"
    /\ handler' = NoHandler
    /\ heap' = Gc(heap, sessions, tasks, handler')
    /\ UNCHANGED <<sessions, user_jobs, jobs, tasks, menu>>
    /\ UNCHANGED rare

SendPcs == {"early_reply", "early_over_send", "over_send", "correct_reply",
            "wrong_reply", "stats_send", "digits_reply", "send"}

(* The awaited reply_text or send_message raises: the exception leaves the *)
(* handler.                                                                *)
handler_send_fails ==
    /\ handler.pc \in SendPcs
    /\ handler' = [handler EXCEPT !.pc = "raised"]
    /\ UNCHANGED <<heap, sessions, user_jobs, jobs, tasks, menu>>
    /\ rare < MaxRare
    /\ rare' = rare + 1

(* The application logs the handler's exception; the next update is taken. *)
handler_error ==
    /\ handler.pc = "raised"
    /\ handler' = NoHandler
    /\ heap' = Gc(heap, sessions, tasks, handler')
    /\ UNCHANGED <<sessions, user_jobs, jobs, tasks, menu>>
    /\ UNCHANGED rare

(* ----------------------- start_round_execution ------------------------- *)
(* Lines 277-290 run by the button handler: clean_chat returned;           *)
(* start_new_round; the round's message is being sent.                     *)
button_show ==
    /\ handler.kind = "button" /\ handler.pc = "clean"
    /\ \E t \in Targets :
        heap' = [heap EXCEPT ![handler.sid] = start_new_round(@, t)]
    /\ handler' = [handler EXCEPT !.pc = "send"]
    /\ UNCHANGED <<sessions, user_jobs, jobs, tasks, menu>>
    /\ UNCHANGED rare

(* Lines 291-302 run by the button handler: the timer job is armed. *)
button_arm ==
    /\ handler.kind = "button" /\ handler.pc = "send"
    /\ FreeJobs(jobs) # {}
    /\ jobs' = run_once_jobs(handler.sid)
    /\ user_jobs' = run_once_user_jobs(handler.sid)
    /\ handler' = NoHandler
    /\ heap' = Gc(heap, sessions, tasks, handler')
    /\ UNCHANGED <<sessions, tasks, menu>>
    /\ UNCHANGED rare

(* ---------------------------- deferred tasks --------------------------- *)
(* transition_to_next_round after its sleep: enters start_round_execution. *)
transition_to_next_round(t) ==
    /\ tasks[t].kind = "next" /\ tasks[t].pc = "sleep"
    /\ tasks' = [tasks EXCEPT ![t].pc = "clean"]
    /\ UNCHANGED <<heap, sessions, user_jobs, jobs, menu, handler>>
    /\ UNCHANGED rare

(* transition_to_next_round_delayed after its sleep, lines 257-260. *)
transition_to_next_round_delayed(t) ==
    /\ tasks[t].kind = "delayed" /\ tasks[t].pc = "sleep"
    /\ IF is_game_over(heap[tasks[t].sid])
       THEN /\ tasks' = [tasks EXCEPT ![t] = NoTask]
            /\ heap' = Gc(heap, sessions, tasks', handler)
       ELSE /\ tasks' = [tasks EXCEPT ![t].pc = "clean"]
            /\ IF heap[tasks[t].sid].state = "SHOWING_NUMBER"
               THEN /\ heap[tasks[t].sid].round < MaxRounds + 1 + MaxOver
                    /\ heap' = Gc([heap EXCEPT ![tasks[t].sid] = next_round(@)],
                                  sessions, tasks', handler)
               ELSE UNCHANGED heap
    /\ UNCHANGED <<sessions, user_jobs, jobs, menu, handler>>
    /\ UNCHANGED rare

(* transition_to_menu after its sleep: clean_chat and the menu message;    *)
(* no game state is written.                                               *)
transition_to_menu ==
    /\ menu
    /\ menu' = FALSE
    /\ UNCHANGED <<heap, sessions, user_jobs, jobs, tasks, handler>>
    /\ UNCHANGED rare

(* Lines 277-290 run by a task. *)
task_show(t) ==
    /\ tasks[t].pc = "clean"
    /\ tasks' = [tasks EXCEPT ![t].pc = "send"]
    /\ \E tg \in Targets :
        heap' = Gc([heap EXCEPT ![tasks[t].sid] = start_new_round(@, tg)],
                   sessions, tasks', handler)
    /\ UNCHANGED <<sessions, user_jobs, jobs, menu, handler>>
    /\ UNCHANGED rare

(* Lines 291-302 run by a task. *)
task_arm(t) ==
    /\ tasks[t].pc = "send"
    /\ FreeJobs(jobs) # {}
    /\ jobs' = run_once_jobs(tasks[t].sid)
    /\ user_jobs' = run_once_user_jobs(tasks[t].sid)
    /\ tasks' = [tasks EXCEPT ![t] = NoTask]
    /\ heap' = Gc(heap, sessions, tasks', handler)
    /\ UNCHANGED <<sessions, menu, handler>>
    /\ UNCHANGED rare

(* Line 290 raises in a task: the task ends with the exception. *)
task_send_fails(t) ==
    /\ tasks[t].pc = "send"
    /\ tasks' = [tasks EXCEPT ![t] = NoTask]
    /\ heap' = Gc(heap, sessions, tasks', handler)
    /\ UNCHANGED <<sessions, user_jobs, jobs, menu, handler>>
    /\ rare < MaxRare
    /\ rare' = rare + 1

(* ------------------------------ timer job ------------------------------ *)
(* The job's time has come: the job queue submits edit_message_job, which  *)
(* runs to the await of edit_message_text (lines 304-321).                 *)
job_fire(j) ==
    /\ jobs[j].st = "armed"
    /\ jobs' = [jobs EXCEPT ![j].st = "running"]
    /\ UNCHANGED <<heap, sessions, user_jobs, tasks, menu, handler>>
    /\ UNCHANGED rare

(* edit_message_job setting the phase of every session in the registry    *)
(* instead of the session of the job's user.                              *)
edit_message_job_all_sessions(j) ==
    /\ jobs[j].st = "running"
    /\ LET u == jobs[j].user
           uj1 == IF u # 0 THEN [user_jobs EXCEPT ![u] = 0] ELSE user_jobs
       IN  /\ user_jobs' = uj1
           /\ jobs' = Collect([jobs EXCEPT ![j] = NoJob], uj1)
           /\ heap' = [i \in SessionIds |->
                         IF \E v \in Users : sessions[v] = i
                         THEN [heap[i] EXCEPT !.state = "WAITING_INPUT"]
                         ELSE heap[i]]
    /\ UNCHANGED <<sessions, tasks, menu, handler, rare>>

(* edit_message_job, lines 327-333, after the edit (or the fallback        *)
(* message) was done.                                                      *)
edit_message_job(j) ==
    /\ jobs[j].st = "running"
    /\ LET u == jobs[j].user
           uj1 == IF u # 0 THEN [user_jobs EXCEPT ![u] = 0] ELSE user_jobs
       IN  /\ user_jobs' = uj1
           /\ jobs' = Collect([jobs EXCEPT ![j] = NoJob], uj1)
           /\ IF u # 0 /\ sessions[u] # 0
              THEN heap' = [heap EXCEPT ![sessions[u]].state = "WAITING_INPUT"]
              ELSE UNCHANGED heap
    /\ UNCHANGED <<sessions, tasks, menu, handler>>
    /\ UNCHANGED rare

(* Lines 320-325: the edit raises and the fallback send_message raises     *)
(* too: the job ends before line 327.                                      *)
edit_message_job_fails(j) ==
    /\ jobs[j].st = "running"
    /\ jobs' = Collect([jobs EXCEPT ![j].st = "dead"], user_jobs)
    /\ UNCHANGED <<heap, sessions, user_jobs, tasks, menu, handler>>
    /\ rare < MaxRare
    /\ rare' = rare + 1

(* ---------------------------- specification ---------------------------- *)
Next ==
    \/ \E u \in Players : start(u)
    \/ \E u \in Players : button_start_round(u)
    \/ \E u \in Players : button_lvl_up(u)
    \/ \E u \in Players : button_lvl_down(u)
    \/ \E u \in Players : check_input_ignored(u)
    \/ \E u \in Players : check_input_early(u)
    \/ \E u \in Players, text \in Texts : check_input_not_digits(u, text)
    \/ \E u \in Players, text \in Texts : check_input_answer(u, text)
    \/ early_after_reply
    \/ early_after_game_over
    \/ answer_after_game_over
    \/ correct_after_reply
    \/ wrong_after_reply
    \/ after_stats
    \/ after_digits_reply
    \/ handler_send_fails
    \/ handler_error
    \/ button_show
    \/ button_arm
    \/ \E t \in TaskIds : transition_to_next_round(t)
    \/ \E t \in TaskIds : transition_to_next_round_delayed(t)
    \/ transition_to_menu
    \/ \E t \in TaskIds : task_show(t)
    \/ \E t \in TaskIds : task_arm(t)
    \/ \E t \in TaskIds : task_send_fails(t)
    \/ \E j \in JobIds : job_fire(j)
    \/ \E j \in JobIds : edit_message_job(j)
    \/ \E j \in JobIds : edit_message_job_fails(j)

Spec == Init /\ [][Next]_vars

(* The scheduling of the event loop and of the job queue: a handler that   *)
(* was resumed runs to its next await, a created task runs after its       *)
(* sleep, and a job runs when its time has come; whether the player sends  *)
(* another update is left open.                                            *)
HandlerStep ==
    \/ early_after_reply
    \/ early_after_game_over
    \/ answer_after_game_over
    \/ correct_after_reply
    \/ wrong_after_reply
    \/ after_stats
    \/ after_digits_reply
    \/ handler_send_fails
    \/ handler_error
    \/ button_show
    \/ button_arm

TaskStep(t) ==
    \/ transition_to_next_round(t)
    \/ transition_to_next_round_delayed(t)
    \/ task_show(t)
    \/ task_arm(t)
    \/ task_send_fails(t)

JobStep(j) ==
    \/ job_fire(j)
    \/ edit_message_job(j)
    \/ edit_message_job_fails(j)

Fairness ==
    /\ WF_vars(HandlerStep)
    /\ WF_vars(transition_to_menu)
    /\ \A t \in TaskIds : WF_vars(TaskStep(t))
    /\ \A j \in JobIds : WF_vars(JobStep(j))

FairSpec == Spec /\ Fairness

(* Two players: before the player's first update the other user has       *)
(* pressed start_round, so that user's round is shown and its timer job   *)
(* is armed (the state after start_round_execution for that user).        *)
Bystanders == Users \ Players

InitTwoPlayers ==
    /\ heap = [i \in SessionIds |->
                 IF i = MaxSessions THEN start_new_round(GameSession, TargetA)
                 ELSE GameSession]
    /\ sessions = [u \in Users |-> IF u \in Bystanders THEN MaxSessions ELSE 0]
    /\ user_jobs = [u \in Users |-> IF u \in Bystanders THEN MaxJobs ELSE 0]
    /\ jobs = [j \in JobIds |->
                 IF j = MaxJobs THEN [st |-> "armed", user |-> Least(Bystanders)]
                 ELSE NoJob]
    /\ tasks = [t \in TaskIds |-> NoTask]
    /\ menu = FALSE
    /\ handler = NoHandler
    /\ rare = 0

SpecTwoPlayers == InitTwoPlayers /\ [][Next]_vars

(* ---------------- the level ladder and its reveal time ----------------- *)
(* show_pre_round_menu, lines 82-88: the level and the reveal time that    *)
(* the menu text shows for session s.                                      *)
show_pre_round_menu(u, s) ==
    [kind |-> "menu", user |-> u, sid |-> sessions[u], pc |-> "sent",
     job_cancelled |-> FALSE,
     level |-> s.level, current_time |-> get_time_for_level(s.level)]

(* button_handler, 'lvl_up', lines 124-127, with the menu it shows. *)
menu_lvl_up(u) ==
    /\ sessions[u] # 0
    /\ heap[sessions[u]].level < MaxTimeLevel
    /\ heap' = [heap EXCEPT ![sessions[u]] = increase_level_manual(@)]
    /\ handler' = show_pre_round_menu(u, heap'[sessions[u]])
    /\ UNCHANGED <<sessions, user_jobs, jobs, tasks, menu, rare>>

(* button_handler, 'lvl_down', lines 129-136, with the menu it shows. *)
menu_lvl_down(u) ==
    /\ sessions[u] # 0
    /\ heap' = [heap EXCEPT ![sessions[u]] = reduce_level(@)]
    /\ handler' = show_pre_round_menu(u, heap'[sessions[u]])
    /\ UNCHANGED <<sessions, user_jobs, jobs, tasks, menu, rare>>

(* Every user has an idle session at some level of the ladder. *)
InitTime ==
    /\ heap \in [SessionIds -> {[GameSession EXCEPT !.level = l] : l \in 1..MaxTimeLevel}]
    /\ sessions = [u \in Users |-> u]
    /\ user_jobs = [u \in Users |-> 0]
    /\ jobs = [j \in JobIds |-> NoJob]
    /\ tasks = [t \in TaskIds |-> NoTask]
    /\ menu = FALSE
    /\ handler = NoHandler
    /\ rare = 0

NextTime ==
    \/ \E u \in Users : menu_lvl_up(u)
    \/ \E u \in Users : menu_lvl_down(u)

SpecTime == InitTime /\ [][NextTime]_vars

(* ---------------------- the level operations alone --------------------- *)
(* A call of a GameSession method on session 1: the session as it was, the *)
(* method and the value it returned.                                       *)
Called(method, ret) ==
    [kind |-> method, user |-> 0, sid |-> 1, pc |-> "returned",
     job_cancelled |-> FALSE, self |-> heap[1], ret |-> ret]

call_reduce_level ==
    /\ heap' = [heap EXCEPT ![1] = reduce_level(@)]
    /\ handler' = Called("reduce_level", reduce_level_returns(heap[1]))
    /\ UNCHANGED <<sessions, user_jobs, jobs, tasks, menu, rare>>

call_advance_level ==
    /\ heap[1].level < MaxTimeLevel
    /\ heap' = [heap EXCEPT ![1] = advance_level(@)]
    /\ handler' = Called("advance_level", advance_level(heap[1]).level)
    /\ UNCHANGED <<sessions, user_jobs, jobs, tasks, menu, rare>>

call_increase_level_manual ==
    /\ heap[1].level < MaxTimeLevel
    /\ heap' = [heap EXCEPT ![1] = increase_level_manual(@)]
    /\ handler' = Called("increase_level_manual", TRUE)
    /\ UNCHANGED <<sessions, user_jobs, jobs, tasks, menu, rare>>

(* Session 1 is a session in any state of a level in play. *)
InitLevels ==
    /\ \E l \in 1..(MaxLevel + 1), r \in 1..(MaxRounds + 1), h \in 0..FullHearts,
          c \in 0..MaxRounds, st \in {"IDLE", "WAITING_INPUT"} :
          heap = [i \in SessionIds |->
                    IF i = 1
                    THEN [GameSession EXCEPT !.level = l, !.round = r, !.hearts = h,
                                             !.level_correct_count = c, !.state = st]
                    ELSE GameSession]
    /\ sessions = [u \in Users |-> IF u \in Players THEN 1 ELSE 0]
    /\ user_jobs = [u \in Users |-> 0]
    /\ jobs = [j \in JobIds |-> NoJob]
    /\ tasks = [t \in TaskIds |-> NoTask]
    /\ menu = FALSE
    /\ handler = NoHandler
    /\ rare = 0

NextLevels ==
    \/ call_reduce_level
    \/ call_advance_level
    \/ call_increase_level_manual

SpecLevels == InitLevels /\ [][NextLevels]_vars

TypeOK ==
    /\ \A u \in Users : sessions[u] \in 0..MaxSessions /\ user_jobs[u] \in 0..MaxJobs
    /\ \A i \in SessionIds :
        heap[i].state \in {"IDLE", "SHOWING_NUMBER", "WAITING_INPUT"}
    /\ \A u \in Users : user_jobs[u] # 0 => jobs[user_jobs[u]].st # "free"

(* ------------------------------- claims -------------------------------- *)
HasSession(u) == sessions[u] # 0
Session(u) == heap[sessions[u]]
ArmedJobs(u) == {j \in JobIds : jobs[j].user = u /\ jobs[j].st = "armed"}
RunningJobs(u) == {j \in JobIds : jobs[j].user = u /\ jobs[j].st = "running"}
InEarlyPath == handler.pc \in {"early_reply", "early_over_send"}

(* A step in which check_input takes a text of user u while the session    *)
(* shows the number.                                                       *)
EarlyInputStep(u) ==
    /\ handler.kind = "none"
    /\ HasSession(u)
    /\ Session(u).state = "SHOWING_NUMBER"
    /\ handler'.kind = "check_input"
    /\ handler'.user = u

(* C1: in one round at most one of the timer job and the input handler     *)
(* mutates the game state: once the input path has deducted the round's    *)
(* heart, a timer job of that player that ends afterwards changes nothing. *)
C1_OnePathPerRound ==
    [][\A j \in JobIds :
          (/\ InEarlyPath
           /\ jobs[j].st = "running"
           /\ jobs[j].user = handler.user
           /\ jobs'[j].st # "running")
          => heap' = heap]_vars

(* C2: one text input while the number is shown always cancels the round's *)
(* timer and deducts exactly one heart: after the step no timer job of the *)
(* player is armed or in flight, and hearts went down by one.              *)
C2_EarlyInputCancelsAndDeductsOne ==
    [][\A u \in Users :
          EarlyInputStep(u)
          => /\ heap'[sessions[u]].hearts = Session(u).hearts - 1
             /\ \A j \in JobIds :
                  jobs'[j].user = u => jobs'[j].st \notin {"armed", "running"}]_vars

(* C3: when the input path's cancel is attempted for a round whose timer   *)
(* has already fired, the input path aborts its mutation: the game state   *)
(* stays as the timer path left it.                                        *)
C3_CancelAfterFireAborts ==
    [][\A u \in Users :
          (EarlyInputStep(u) /\ RunningJobs(u) # {}) => heap' = heap]_vars

(* C4: the job is cancelled or its action runs, never both: cancel of a    *)
(* job whose action has already started returns False (and does not        *)
(* raise).                                                                 *)
C4_CancelOfStartedJobIsNoOp ==
    [][\A u \in Users :
          (/\ EarlyInputStep(u)
           /\ user_jobs[u] # 0
           /\ jobs[user_jobs[u]].st = "running")
          => (handler'.pc # "raised" /\ ~handler'.job_cancelled)]_vars

(* C5: at most one live (armed, not yet fired or cancelled) timer job per  *)
(* player.                                                                 *)
C5_AtMostOneLiveJob == \A u \in Users : Cardinality(ArmedJobs(u)) <= 1

(* C6: a timer job is armed for a player only while the player's current   *)
(* session is in phase Showing.                                            *)
C6_ArmedOnlyWhileShowing ==
    \A u \in Users :
        ArmedJobs(u) # {} => (HasSession(u) /\ Session(u).state = "SHOWING_NUMBER")

(* C7: the target sequence is non-empty if and only if the phase is        *)
(* Showing or WaitingInput.                                                *)
C7_TargetIffActive ==
    \A u \in Users :
        HasSession(u) =>
            (Session(u).target_number # <<>>
                <=> Session(u).state \in {"SHOWING_NUMBER", "WAITING_INPUT"})

(* C8: hearts stays within 0..3 in every reachable state.                  *)
C8_HeartsInRange ==
    \A u \in Users : HasSession(u) => Session(u).hearts \in 0..FullHearts

(* C9: when a resolution brings hearts to 0 the session is reset before    *)
(* any further user input is processed: whenever the next update can be    *)
(* taken, no session is left with hearts at 0.                             *)
C9_ResetBeforeNextInput ==
    \A u \in Users :
        (handler.kind = "none" /\ HasSession(u)) => ~is_game_over(Session(u))

(* C10: no round is shown or awaited while round > 8: whenever the phase   *)
(* is Showing or WaitingInput, 1 <= round <= 8.                            *)
C10_RoundInRangeWhileActive ==
    \A u \in Users :
        (HasSession(u) /\ Session(u).state \in {"SHOWING_NUMBER", "WAITING_INPUT"})
            => Session(u).round \in 1..MaxRounds

Active == {"SHOWING_NUMBER", "WAITING_INPUT"}

(* C11: a manual level adjustment (lvl_up or lvl_down) arriving while the  *)
(* phase is Showing or WaitingInput is rejected with no mutation of the    *)
(* session.                                                                *)
C11_LevelChangeRejectedWhileActive ==
    [][\A u \in Users :
          (/\ HasSession(u)
           /\ Session(u).state \in Active
           /\ (button_lvl_up(u) \/ button_lvl_down(u)))
          => heap' = heap]_vars

(* C12: a start-round request made while the phase is not Idle fails: the  *)
(* button handler that reaches start_new_round with the session Showing or *)
(* WaitingInput leaves the session as it is and does not go on to send the *)
(* round and arm a timer job.                                              *)
C12_StartRoundFailsWhileActive ==
    [][(/\ handler.kind = "button"
        /\ handler.pc = "clean"
        /\ heap[handler.sid].state \in Active
        /\ handler' # handler)
       => (handler'.pc # "send" /\ heap' = heap)]_vars

(* A step in which check_input judges a text of user u with check_answer   *)
(* (line 187).                                                             *)
JudgedStep(u) ==
    /\ handler.kind = "none"
    /\ HasSession(u)
    /\ Session(u).state = "WAITING_INPUT"
    /\ handler'.kind = "check_input"
    /\ handler'.user = u
    /\ handler'.pc \in {"correct_reply", "wrong_reply", "over_send"}

(* C13: each generated target sequence is compared against user input at   *)
(* most once: no input is judged against a sequence that a judged answer   *)
(* or an early-input penalty has already consumed.                         *)
C13_SequenceJudgedAtMostOnce ==
    [][\A u \in Users : JudgedStep(u) => ~Session(u).consumed]_vars

(* The steps of check_input for a text that is not all digits: the step    *)
(* that takes the text and the step after the "Digits only" reply.         *)
NonDigitStep ==
    \/ /\ handler.kind = "none"
       /\ handler'.kind = "check_input"
       /\ handler'.pc = "digits_reply"
    \/ /\ handler.pc = "digits_reply"
       /\ handler' # handler

(* C14: non-digit text submitted while the phase is WaitingInput causes    *)
(* zero state mutation: the handler's steps leave the session, the timer   *)
(* jobs and the deferred tasks as they were, and schedule no transition.   *)
C14_NonDigitNoMutation ==
    [][NonDigitStep =>
          (/\ \A i \in SessionIds :
                (i = handler.sid \/ i = handler'.sid) => heap'[i] = heap[i]
           /\ sessions' = sessions
           /\ user_jobs' = user_jobs
           /\ jobs' = jobs
           /\ tasks' = tasks
           /\ menu' = menu)]_vars

(* C14 witness: a non-digit text was taken in WaitingInput and is being    *)
(* answered with "Digits only".                                            *)
C14_Witness ==
    /\ handler.pc = "digits_reply"
    /\ heap[handler.sid].state = "WAITING_INPUT"
    /\ heap[handler.sid].target_number # <<>>

(* A step of check_input for a text of user u. *)
CheckInputStep(u) ==
    \/ check_input_ignored(u)
    \/ check_input_early(u)
    \/ \E text \in Texts : check_input_not_digits(u, text)
    \/ \E text \in Texts : check_input_answer(u, text)

(* C15: a text submitted while the phase is Idle is a no-op: nothing of    *)
(* the session changes and no handler work is started.                     *)
C15_InputWhileIdleNoOp ==
    [][\A u \in Users :
          (/\ HasSession(u)
           /\ Session(u).state = "IDLE"
           /\ CheckInputStep(u))
          => UNCHANGED vars]_vars

(* C15 witness: a session is Idle between two rounds (its last sequence    *)
(* still stored, the next round pending) and the next update can be taken. *)
C15_Witness ==
    /\ handler.kind = "none"
    /\ \E u \in Users :
        /\ HasSession(u)
        /\ Session(u).state = "IDLE"
        /\ Session(u).target_number # <<>>
        /\ \E t \in TaskIds : tasks[t].sid = sessions[u] /\ tasks[t].pc = "sleep"

(* start_round_execution is between start_new_round and run_once (the      *)
(* await of line 290) for session i.                                       *)
Starting(i) ==
    \/ handler.sid = i /\ handler.pc = "send"
    \/ \E t \in TaskIds : tasks[t].sid = i /\ tasks[t].pc = "send"

(* C16: every round in phase Showing has a deadline: whenever no update    *)
(* handler is in progress and the round's start has finished, a session    *)
(* in Showing has a timer job of its player armed or executing.            *)
C16_ShowingHasDeadline ==
    \A u \in Users :
        (/\ handler.kind = "none"
         /\ HasSession(u)
         /\ Session(u).state = "SHOWING_NUMBER"
         /\ ~Starting(sessions[u]))
        => (ArmedJobs(u) \cup RunningJobs(u)) # {}

(* A timer job gets armed in the step. *)
JobArmedInStep == \E j \in JobIds : jobs[j].st # "armed" /\ jobs'[j].st = "armed"

(* C17: a presentation failure never gates game-state progression: the     *)
(* step that ends the await of a send or of an edit, whether the call      *)
(* returned or raised, performs the transition that follows it in the      *)
(* code: the timer is armed after the round message, the session is reset  *)
(* after the game-over message, the level advances after the statistics,   *)
(* the round advances after "Correct!", the handler goes on after the      *)
(* penalty and "Wrong!" replies, the phase becomes WaitingInput when the   *)
(* timer job ends.                                                         *)
C17_SendFailureDoesNotGate ==
    [][/\ \A t \in TaskIds :
            (tasks[t].pc = "send" /\ tasks'[t] # tasks[t]) => JobArmedInStep
       /\ (handler.pc = "send" /\ handler' # handler) => JobArmedInStep
       /\ (handler.pc \in {"over_send", "early_over_send"} /\ handler' # handler)
            => heap'[handler.sid].hearts = FullHearts
       /\ (handler.pc = "stats_send" /\ handler' # handler)
            => heap'[handler.sid].level = heap[handler.sid].level + 1
       /\ (handler.pc = "correct_reply" /\ handler' # handler)
            => heap'[handler.sid].round = heap[handler.sid].round + 1
       /\ (handler.pc \in {"early_reply", "wrong_reply"} /\ handler' # handler)
            => handler'.pc # "raised"
       /\ \A j \in JobIds :
            (/\ jobs[j].st = "running"
             /\ jobs'[j].st # "running"
             /\ jobs[j].user # 0
             /\ sessions[jobs[j].user] # 0)
            => heap'[sessions[jobs[j].user]].state = "WAITING_INPUT"]_vars

(* The handler's step after an awaited send or reply returned. *)
Resumes(pc) == handler.pc = pc /\ handler' # handler /\ handler'.pc # "raised"

(* C18: level 1 played from round 1 with every round answered correctly    *)
(* (hearts still 3, one correct answer per round played): level completion *)
(* is signalled on the correct answer that makes levelCorrectCount 8 and   *)
(* on no earlier one, and after it the session has level 2, round 1,       *)
(* hearts 3, levelCorrectCount 0.                                          *)
C18_EightCorrectCompleteLevel ==
    [][/\ (/\ Resumes("correct_reply")
           /\ heap[handler.sid].level = 1
           /\ heap[handler.sid].hearts = FullHearts
           /\ heap[handler.sid].round \in 1..MaxRounds
           /\ heap[handler.sid].level_correct_count = heap[handler.sid].round)
          => (handler'.pc = "stats_send"
                <=> heap[handler.sid].level_correct_count = MaxRounds)
       /\ (/\ Resumes("stats_send")
           /\ heap[handler.sid].level = 1
           /\ heap[handler.sid].hearts = FullHearts
           /\ heap[handler.sid].level_correct_count = MaxRounds)
          => (/\ heap'[handler.sid].level = 2
              /\ heap'[handler.sid].round = 1
              /\ heap'[handler.sid].hearts = FullHearts
              /\ heap'[handler.sid].level_correct_count = 0)]_vars

(* C18 witness: the eighth correct answer of level 1 has been given with   *)
(* no heart lost, and the level's statistics are being sent.               *)
C18_Witness ==
    /\ handler.pc = "stats_send"
    /\ heap[handler.sid].level = 1
    /\ heap[handler.sid].hearts = FullHearts
    /\ heap[handler.sid].level_correct_count = MaxRounds
    /\ heap[handler.sid].round = MaxRounds + 1

(* C19: when the round's timer expires with no early input (the timer     *)
(* job ends, its message shown, on a session in Showing whose sequence is  *)
(* unused) and the player then submits the correct sequence, the phase     *)
(* goes Showing -> WaitingInput -> Idle, levelCorrectCount and round       *)
(* increase by exactly one and hearts is unchanged.                        *)
C19_TimerThenCorrectAnswer ==
    [][/\ \A j \in JobIds :
            (/\ jobs[j].st = "running"
             /\ jobs'[j] = NoJob
             /\ rare' = rare
             /\ jobs[j].user # 0
             /\ HasSession(jobs[j].user)
             /\ Session(jobs[j].user).state = "SHOWING_NUMBER"
             /\ ~Session(jobs[j].user).consumed)
            => heap'[sessions[jobs[j].user]] =
                  [Session(jobs[j].user) EXCEPT !.state = "WAITING_INPUT"]
       /\ \A u \in Users :
            (JudgedStep(u) /\ handler'.pc = "correct_reply")
            => (/\ heap'[sessions[u]].state = "IDLE"
                /\ heap'[sessions[u]].level_correct_count =
                      Session(u).level_correct_count + 1
                /\ heap'[sessions[u]].round = Session(u).round
                /\ heap'[sessions[u]].hearts = Session(u).hearts
                /\ heap'[sessions[u]].level = Session(u).level)
       /\ Resumes("correct_reply")
            => (/\ heap'[handler.sid].state = "IDLE"
                /\ heap'[handler.sid].round = heap[handler.sid].round + 1
                /\ heap'[handler.sid].level_correct_count =
                      heap[handler.sid].level_correct_count
                /\ heap'[handler.sid].hearts = heap[handler.sid].hearts
                /\ heap'[handler.sid].level = heap[handler.sid].level)]_vars

(* C19 witness: round 1 was shown, its timer expired and the sequence was  *)
(* answered correctly: the session waits in Idle for round 2.              *)
C19_Witness ==
    /\ handler.kind = "none"
    /\ \E u \in Users :
        /\ HasSession(u)
        /\ Session(u).state = "IDLE"
        /\ Session(u).round = 2
        /\ Session(u).level_correct_count = 1
        /\ Session(u).hearts = FullHearts
        /\ \E t \in TaskIds : tasks[t].kind = "next" /\ tasks[t].sid = sessions[u]

(* C20: every Incorrect resolution deducts exactly one heart, and the game *)
(* is over exactly when that brings hearts to 0: three of them from        *)
(* hearts = 3 leave hearts = 0 and is_game_over() true.                    *)
C20_IncorrectDeductsOneHeart ==
    [][\A u \in Users :
          (JudgedStep(u) /\ handler'.pc \in {"wrong_reply", "over_send"})
          => (/\ heap'[sessions[u]].hearts = Session(u).hearts - 1
              /\ heap'[sessions[u]].level_correct_count =
                    Session(u).level_correct_count
              /\ (handler'.pc = "over_send" <=> heap'[sessions[u]].hearts <= 0)
              /\ (Session(u).hearts = 1 => is_game_over(heap'[sessions[u]]))
              /\ (Session(u).hearts > 1 => ~is_game_over(heap'[sessions[u]])))]_vars

(* C20 witness: rounds 1, 2 and 3 of a fresh session were each answered    *)
(* wrongly: the third leaves hearts = 0 and the game is over.              *)
C20_Witness ==
    /\ handler.pc = "over_send"
    /\ heap[handler.sid].hearts = 0
    /\ heap[handler.sid].round = 3
    /\ heap[handler.sid].level = 1
    /\ heap[handler.sid].level_correct_count = 0
    /\ is_game_over(heap[handler.sid])

(* A step of a timer job of user b: it fires, or its callback ends. *)
TimerStepOf(b) ==
    \E j \in JobIds :
        /\ jobs[j].user = b
        /\ \/ jobs[j].st = "armed" /\ jobs'[j].st = "running"
           \/ jobs[j].st = "running" /\ jobs'[j] # jobs[j]

(* C21: operations of one player never change another player's session    *)
(* or timer job: every step that is not a step of the bystander's own      *)
(* timer job (so a step of the player's handlers, tasks and jobs) leaves   *)
(* the bystander's registry entries, session and jobs unchanged.           *)
C21_PlayersIndependent ==
    [][\A b \in Bystanders :
          ~TimerStepOf(b)
          => (/\ sessions'[b] = sessions[b]
              /\ heap'[sessions[b]] = heap[sessions[b]]
              /\ user_jobs'[b] = user_jobs[b]
              /\ \A j \in JobIds :
                    (jobs[j].user = b \/ jobs'[j].user = b) => jobs'[j] = jobs[j])]_vars

(* C21 witness: the player has started a round, its timer has expired and  *)
(* an answer is being resolved, while the bystander's round is still shown *)
(* with its timer job armed.                                               *)
C21_Witness ==
    /\ handler.kind = "check_input"
    /\ handler.user \in Players
    /\ \E b \in Bystanders :
        /\ Session(b).state = "SHOWING_NUMBER"
        /\ user_jobs[b] # 0
        /\ jobs[user_jobs[b]].st = "armed"

(* C22: get_time_for_level(level) is the table 15, 10, 8, 6, 5, 4, 3, 2.5, *)
(* 2, 1.5, 1.25, 1 seconds for levels 1..12 and max(0.1, 1 - (level-12)/10)*)
(* above; it never falls below 0.1 s and does not grow with the level      *)
(* (times in hundredths of a second).                                      *)
C22_TimeForLevel ==
    LET table == <<1500, 1000, 800, 600, 500, 400, 300, 250, 200, 150, 125, 100>>
        above(l) == IF 100 - (l - 12) * 10 > 10 THEN 100 - (l - 12) * 10 ELSE 10
        shown(l) == IF l <= 12 THEN table[l] ELSE above(l)
    IN  handler.kind = "menu"
        => /\ handler.level = heap[handler.sid].level
           /\ handler.current_time = shown(handler.level)
           /\ handler.current_time >= 10
           /\ \A i \in SessionIds :
                 heap[i].level >= handler.level
                 => get_time_for_level(heap[i].level) <= handler.current_time

(* C22 witness: a menu shown for a level above 21, where 1 - (level-12)/10 *)
(* is below the floor, while the other session is at a table level.        *)
C22_Witness ==
    /\ handler.kind = "menu"
    /\ handler.level > 21
    /\ handler.current_time = 10
    /\ \E i \in SessionIds : heap[i].level = 12

(* C23: when an early input brings hearts to 0 the controller does the     *)
(* game-over handling only: the step that ends that handling leaves the    *)
(* session in phase IDLE and schedules no next round.                      *)
C23_EarlyGameOverOnly ==
    [][(handler.pc = "early_over_send" /\ handler'.kind = "none")
          => (/\ heap'[handler.sid].state = "IDLE"
              /\ heap'[handler.sid].round = 1
              /\ tasks' = tasks)]_vars

(* C24: after an early-input penalty that does not end the game (hearts    *)
(* below 3 and above 0 when the pacing delay ends) the delayed transition  *)
(* advances the round counter before it starts the next round.             *)
C24_PenaltyAdvancesRound ==
    [][\A t \in TaskIds :
          (/\ tasks[t].kind = "delayed"
           /\ tasks[t].pc = "sleep"
           /\ tasks'[t].pc = "clean"
           /\ heap[tasks[t].sid].hearts < FullHearts)
          => heap'[tasks[t].sid].round = heap[tasks[t].sid].round + 1]_vars

(* C25: an input taken while the phase is SHOWING_NUMBER costs exactly one *)
(* heart, and when its handling ends the target sequence is cleared and    *)
(* the phase is IDLE, also when the penalty brought hearts to 0.           *)
C25_EarlyInputPenalty ==
    [][/\ \A u \in Users :
            (EarlyInputStep(u) /\ handler'.pc # "raised")
            => heap'[sessions[u]].hearts = Session(u).hearts - 1
       /\ (InEarlyPath /\ handler'.kind = "none")
            => (/\ heap'[handler.sid].state = "IDLE"
                /\ heap'[handler.sid].target_number = <<>>)]_vars

(* C26: an all-digit answer in WAITING_INPUT that differs from the target  *)
(* costs exactly one heart, clears the target sequence, sets the phase to  *)
(* IDLE and leaves level_correct_count unchanged.                          *)
C26_WrongAnswerEffect ==
    [][\A u \in Users :
          (JudgedStep(u) /\ handler'.pc \in {"wrong_reply", "over_send"})
          => (/\ heap'[sessions[u]].hearts = Session(u).hearts - 1
              /\ heap'[sessions[u]].target_number = <<>>
              /\ heap'[sessions[u]].state = "IDLE"
              /\ heap'[sessions[u]].level_correct_count =
                    Session(u).level_correct_count)]_vars

(* C27: the timer-expiry action only performs SHOWING_NUMBER ->            *)
(* WAITING_INPUT: a timer job that ends while the session of its player is *)
(* not in SHOWING_NUMBER changes no session.                               *)
C27_TimerOnlyHidesShowing ==
    [][\A j \in JobIds :
          (/\ jobs[j].st = "running"
           /\ jobs'[j].st # "running"
           /\ jobs[j].user # 0
           /\ HasSession(jobs[j].user)
           /\ Session(jobs[j].user).state # "SHOWING_NUMBER")
          => heap' = heap]_vars

(* C28: a timer job only hides the round it was armed for: a job that      *)
(* moves a session from SHOWING_NUMBER to WAITING_INPUT does not hide a    *)
(* round whose own job is still to be armed, or one for which a job armed  *)
(* after it is registered.                                                 *)
C28_JobHidesOwnRound ==
    [][\A j \in JobIds :
          (/\ jobs[j].st = "running"
           /\ jobs'[j].st # "running"
           /\ jobs[j].user # 0
           /\ HasSession(jobs[j].user)
           /\ Session(jobs[j].user).state = "SHOWING_NUMBER"
           /\ heap'[sessions[jobs[j].user]].state = "WAITING_INPUT")
          => (/\ user_jobs[jobs[j].user] \in {0, j}
              /\ ~Starting(sessions[jobs[j].user]))]_vars

(* C29: in the early-input path cancel_user_job is invoked before any      *)
(* game-state field is modified: when the cancel raises, the step has      *)
(* changed no session, and when the step has changed the session the       *)
(* cancel has been done (the player's registry entry is removed and the    *)
(* registered job, if still armed, is gone).                               *)
C29_CancelBeforeMutation ==
    [][\A u \in Users :
          EarlyInputStep(u)
          => (/\ handler'.pc = "raised" => heap' = heap
              /\ heap'[sessions[u]] # Session(u)
                 => (/\ handler'.pc = "early_reply"
                     /\ user_jobs'[u] = 0
                     /\ \A j \in JobIds :
                           (user_jobs[u] = j /\ jobs[j].st = "armed")
                           => jobs'[j] = NoJob))]_vars

(* C29 witness: an early input whose cancel raised on a job that had       *)
(* already started; the session still has all its hearts.                  *)
C29_Witness ==
    /\ handler.pc = "raised"
    /\ heap[handler.sid].state = "SHOWING_NUMBER"
    /\ heap[handler.sid].hearts = FullHearts
    /\ user_jobs[handler.user] # 0
    /\ jobs[user_jobs[handler.user]].st = "running"

(* C30: a wrong answer to round 8 that leaves a heart completes the level  *)
(* as a correct one does: after the "Wrong!" reply the level statistics    *)
(* are sent, after them advance_level has run (level + 1, round 1, hearts  *)
(* 3, level_correct_count 0) and the menu is scheduled, and from the       *)
(* answer on no round numbered 9 is started: the handler creates no        *)
(* next-round task, and while the "Wrong!" reply is sent the session does  *)
(* not enter SHOWING_NUMBER with round above 8.                            *)
C30_WrongOnLastRoundCompletesLevel ==
    [][/\ \A u \in Users :
            (/\ JudgedStep(u)
             /\ handler'.pc = "wrong_reply"
             /\ Session(u).round = MaxRounds)
            => (/\ heap'[sessions[u]].round = MaxRounds + 1
                /\ tasks' = tasks)
       /\ (Resumes("wrong_reply") /\ heap[handler.sid].round = MaxRounds + 1)
            => (/\ handler'.pc = "stats_send"
                /\ tasks' = tasks)
       /\ (Resumes("stats_send") /\ heap[handler.sid].round = MaxRounds + 1)
            => (/\ handler'.kind = "none"
                /\ menu'
                /\ tasks' = tasks
                /\ heap'[handler.sid].level = heap[handler.sid].level + 1
                /\ heap'[handler.sid].round = 1
                /\ heap'[handler.sid].hearts = FullHearts
                /\ heap'[handler.sid].level_correct_count = 0)
       /\ (/\ handler.pc = "wrong_reply"
           /\ heap[handler.sid].round = MaxRounds + 1)
            => ~(/\ heap'[handler.sid].state = "SHOWING_NUMBER"
                 /\ heap'[handler.sid].round > MaxRounds)]_vars

(* C31: reduce_level at level 1 returns False and changes nothing; above   *)
(* level 1 it returns True and sets level - 1, round 1, hearts 3,          *)
(* level_correct_count 0; advance_level and increase_level_manual set      *)
(* level + 1, round 1, hearts 3, level_correct_count 0; no method changes  *)
(* another field, and level >= 1 always.                                   *)
C31_LevelOperations ==
    LET reset(l) == [handler.self EXCEPT !.level = l, !.round = 1,
                                         !.hearts = 3, !.level_correct_count = 0]
    IN  /\ heap[1].level >= 1
        /\ handler.kind = "reduce_level"
           => IF handler.self.level = 1
              THEN handler.ret = FALSE /\ heap[1] = handler.self
              ELSE handler.ret = TRUE /\ heap[1] = reset(handler.self.level - 1)
        /\ handler.kind \in {"advance_level", "increase_level_manual"}
           => heap[1] = reset(handler.self.level + 1)

(* C31 witness: reduce_level has returned False on a session at level 1    *)
(* that had lost hearts in a later round.                                  *)
C31_Witness ==
    /\ handler.kind = "reduce_level"
    /\ handler.ret = FALSE
    /\ heap[1].level = 1
    /\ heap[1].round > 1
    /\ heap[1].hearts < FullHearts

(* C32: no round blocks in SHOWING_NUMBER: with the handlers, the tasks    *)
(* and the timer jobs scheduled fairly, a player's session that is in      *)
(* SHOWING_NUMBER eventually is not.                                       *)
C32_ShowingEventuallyLeft ==
    \A u \in Players :
        (HasSession(u) /\ Session(u).state = "SHOWING_NUMBER")
        ~> ~(HasSession(u) /\ Session(u).state = "SHOWING_NUMBER")

(* The session object is the one a user's registry entry holds. *)
Attached(i) == \E u \in Users : sessions[u] = i

(* The next-round task created in the step for the handler's session. *)
NextRoundScheduled ==
    \E t \in TaskIds :
        /\ tasks[t] = NoTask
        /\ tasks'[t] = [kind |-> "next", sid |-> handler.sid, pc |-> "sleep"]

(* C33: after a judged answer that neither completes the level nor ends    *)
(* the game the next round starts by itself: the handler, resumed after    *)
(* its reply, leaves the round counter one above the judged round and      *)
(* schedules the next-round task; that task, when it runs, puts the        *)
(* session in SHOWING_NUMBER with a new sequence and that round number.    *)
(* After a level completion (the statistics were sent) the menu is         *)
(* scheduled, no round is, and the phase is IDLE.                          *)
C33_NextRoundStartsByItself ==
    [][/\ (Resumes("correct_reply") /\ heap[handler.sid].round < MaxRounds)
            => (/\ heap'[handler.sid].round = heap[handler.sid].round + 1
                /\ NextRoundScheduled)
       /\ (Resumes("wrong_reply") /\ heap[handler.sid].round \in 2..MaxRounds)
            => (/\ heap'[handler.sid].round = heap[handler.sid].round
                /\ NextRoundScheduled)
       /\ \A t \in TaskIds :
            (/\ tasks[t].kind = "next"
             /\ tasks[t].pc = "clean"
             /\ tasks'[t].pc = "send"
             /\ Attached(tasks[t].sid))
            => (/\ heap'[tasks[t].sid].state = "SHOWING_NUMBER"
                /\ heap'[tasks[t].sid].round = heap[tasks[t].sid].round
                /\ heap'[tasks[t].sid].target_number \in Targets)
       /\ Resumes("stats_send")
            => (/\ menu'
                /\ tasks' = tasks
                /\ heap'[handler.sid].state = "IDLE")]_vars

(* C34: the job registry is consistent with the live jobs: every armed     *)
(* timer job of a player is the one user_jobs records for that player,     *)
(* and a job that ends removes only its own registry entry: the entry of   *)
(* another job of the player that is still armed stays.                    *)
C34_RegistryConsistent ==
    [][/\ \A j \in JobIds :
            (jobs[j].st = "armed" /\ jobs[j].user # 0)
            => user_jobs[jobs[j].user] = j
       /\ \A j \in JobIds :
            (/\ jobs[j].st = "running"
             /\ jobs'[j].st # "running"
             /\ jobs[j].user # 0
             /\ user_jobs[jobs[j].user] \notin {0, j}
             /\ jobs[user_jobs[jobs[j].user]].st = "armed")
            => user_jobs'[jobs[j].user] = user_jobs[jobs[j].user]]_vars

(* C35: a session in the default state of a new GameSession, as /start     *)
(* creates it, stays so under every step of a timer job and under every    *)
(* step of a deferred task that holds another session object: only an      *)
(* update of the player changes it.                                        *)
C35_FreshSessionUntouched ==
    [][\A u \in Users :
          (/\ HasSession(u)
           /\ Session(u) = GameSession
           /\ \/ \E j \in JobIds : JobStep(j)
              \/ \E t \in TaskIds : tasks[t].sid # sessions[u] /\ TaskStep(t))
          => heap'[sessions[u]] = GameSession]_vars

(* C36: whenever no update handler is in progress, every player's session  *)
(* has 0 <= level_correct_count <= round - 1 <= 8: the correct count never *)
(* exceeds the number of rounds resolved in the level.                     *)
C36_CorrectCountWithinRounds ==
    \A u \in Users :
        (HasSession(u) /\ handler.kind = "none")
        => (/\ 0 <= Session(u).level_correct_count
            /\ Session(u).level_correct_count <= Session(u).round - 1
            /\ Session(u).round - 1 <= MaxRounds)

====
